---- MODULE Spec2Model ----
(***************************************************************************)
(* A model of simple-crawler: SimpleCrawler (crawler.py) and the call the  *)
(* Streamlit front end makes into it (app.py).                             *)
(*                                                                         *)
(* Strings are sequences of one-character strings, so that strip,          *)
(* startswith, urljoin and urlparse are computed character by character.   *)
(***************************************************************************)
EXTENDS Integers, Sequences, FiniteSets, TLC

(***************************************************************************)
(* Bounds of the model.                                                    *)
(***************************************************************************)
\* the longest input list of a batch
MaxUrls == 3
\* the most anchors of a document handed to extract_links on its own
MaxAnchors == 3
\* the longest host part appended to a scheme prefix in the normalizer inputs
MaxTail == 2
MaxElements == 2

(***************************************************************************)
(* str helpers                                                             *)
(***************************************************************************)
Whitespace == {" ", "\n", "\t"}

StartsWith(s, p) == Len(s) >= Len(p) /\ SubSeq(s, 1, Len(p)) = p

RECURSIVE LStrip(_)
LStrip(s) == IF s # <<>> /\ Head(s) \in Whitespace THEN LStrip(Tail(s)) ELSE s

RECURSIVE RStrip(_)
RStrip(s) ==
    IF s # <<>> /\ s[Len(s)] \in Whitespace THEN RStrip(SubSeq(s, 1, Len(s) - 1)) ELSE s

\* str.strip()
strip(s) == RStrip(LStrip(s))

\* str.find(c): the first index of character c in s, 0 when there is none
Find(s, c) ==
    IF \E i \in 1..Len(s) : s[i] = c
    THEN CHOOSE i \in 1..Len(s) : s[i] = c /\ \A j \in 1..(i - 1) : s[j] # c
    ELSE 0

\* str.split(c)
RECURSIVE Split(_, _), SplitAt(_, _, _)
Split(s, c) == SplitAt(s, c, Find(s, c))
SplitAt(s, c, i) ==
    IF i = 0 THEN <<s>>
    ELSE <<SubSeq(s, 1, i - 1)>> \o Split(SubSeq(s, i + 1, Len(s)), c)

\* c.join(parts)
RECURSIVE Join(_, _)
Join(parts, c) ==
    IF parts = <<>> THEN <<>>
    ELSE IF Len(parts) = 1 THEN parts[1]
    ELSE parts[1] \o <<c>> \o Join(Tail(parts), c)

\* init with x appended unless it is there already
AppendNew(init, x) == IF \E i \in 1..Len(init) : init[i] = x THEN init ELSE Append(init, x)

\* a slip that keeps the last occurrence of each element instead of the first
RECURSIVE KeepLast(_)
KeepLast(s) ==
    IF s = <<>> THEN <<>>
    ELSE IF \E i \in 2..Len(s) : s[i] = s[1] THEN KeepLast(Tail(s))
    ELSE <<s[1]>> \o KeepLast(Tail(s))

\* list(dict.fromkeys(s)): first occurrences, in order
RECURSIVE dict_fromkeys(_)
dict_fromkeys(s) ==
    IF s = <<>> THEN <<>>
    ELSE AppendNew(dict_fromkeys(SubSeq(s, 1, Len(s) - 1)), s[Len(s)])

Range(s) == {s[i] : i \in 1..Len(s)}

NoDuplicates(s) == \A i, j \in 1..Len(s) : s[i] = s[j] => i = j

(***************************************************************************)
(* URL normalization: crawl_url, the scheme check                          *)
(***************************************************************************)
HTTP == <<"h", "t", "t", "p", ":", "/", "/">>
HTTPS == <<"h", "t", "t", "p", "s", ":", "/", "/">>

\* a slip that prepends the scheme whenever the string is not https
NormalizeHttpsOnly(url) == IF StartsWith(url, HTTPS) THEN url ELSE HTTPS \o url

Normalize(url) ==
    IF StartsWith(url, HTTP) \/ StartsWith(url, HTTPS) THEN url ELSE HTTPS \o url

(***************************************************************************)
(* urllib.parse, as far as extract_links uses it: urlsplit, urlunsplit and *)
(* urljoin on URLs without query, fragment or parameters.                  *)
(***************************************************************************)
LowerLetters ==
    <<"a", "b", "c", "d", "e", "f", "g", "h", "i", "j", "k", "l", "m",
      "n", "o", "p", "q", "r", "s", "t", "u", "v", "w", "x", "y", "z">>
UpperLetters ==
    <<"A", "B", "C", "D", "E", "F", "G", "H", "I", "J", "K", "L", "M",
      "N", "O", "P", "Q", "R", "S", "T", "U", "V", "W", "X", "Y", "Z">>
Digits == {"0", "1", "2", "3", "4", "5", "6", "7", "8", "9"}

IsAlpha(c) == c \in Range(LowerLetters) \cup Range(UpperLetters)

scheme_chars == Range(LowerLetters) \cup Range(UpperLetters) \cup Digits \cup {"+", "-", "."}

\* str.lower() on one character
LowerChar(c) ==
    IF c \in Range(UpperLetters)
    THEN LowerLetters[CHOOSE i \in 1..Len(UpperLetters) : UpperLetters[i] = c]
    ELSE c

lower(s) == [i \in 1..Len(s) |-> LowerChar(s[i])]

S_http == <<"h", "t", "t", "p">>
S_https == <<"h", "t", "t", "p", "s">>
S_ftp == <<"f", "t", "p">>
S_file == <<"f", "i", "l", "e">>

\* the schemes of urllib's tables that the model's URLs can carry
uses_relative == {<<>>, S_ftp, S_http, S_file, S_https}
uses_netloc == {<<>>, S_ftp, S_http, S_file, S_https}

\* url[:i].lower(), url[i+1:] when url[:i] is a scheme, i being url.find(':')
SchemeAt(url, default, i) ==
    IF i > 1 /\ IsAlpha(url[1]) /\ \A k \in 1..(i - 1) : url[k] \in scheme_chars
    THEN [scheme |-> lower(SubSeq(url, 1, i - 1)), rest |-> SubSeq(url, i + 1, Len(url))]
    ELSE [scheme |-> default, rest |-> url]

\* ('[' in netloc and ']' not in netloc) or (']' in netloc and '[' not in netloc)
BadBrackets(netloc) == ("[" \in Range(netloc)) # ("]" \in Range(netloc))

\* _splitnetloc(url, 2), after being url[2:] and d the place of its first '/'
NetlocAt(scheme, after, d) ==
    IF d = 0
    THEN [scheme |-> scheme, netloc |-> after, path |-> <<>>, err |-> BadBrackets(after)]
    ELSE [scheme |-> scheme, netloc |-> SubSeq(after, 1, d - 1),
          path |-> SubSeq(after, d, Len(after)),
          err |-> BadBrackets(SubSeq(after, 1, d - 1))]

\* the rest of urlsplit once the scheme is split off
SplitRest(scheme, rest) ==
    IF StartsWith(rest, <<"/", "/">>)
    THEN NetlocAt(scheme, SubSeq(rest, 3, Len(rest)), Find(SubSeq(rest, 3, Len(rest)), "/"))
    ELSE [scheme |-> scheme, netloc |-> <<>>, path |-> rest, err |-> FALSE]

SplitParts(s) == SplitRest(s.scheme, s.rest)

\* urlsplit(url, default): err is the ValueError("Invalid IPv6 URL")
urlsplit(url, default) == SplitParts(SchemeAt(url, default, Find(url, ":")))

\* the path with the '/' urlunsplit puts before it when a netloc is written
SlashPath(path) == IF path # <<>> /\ Head(path) # "/" THEN <<"/">> \o path ELSE path

SchemePrefix(scheme) == IF scheme # <<>> THEN scheme \o <<":">> ELSE <<>>

\* urlunsplit((scheme, netloc, path, '', ''))
urlunsplit(scheme, netloc, path) ==
    IF netloc # <<>>
       \/ (scheme # <<>> /\ scheme \in uses_netloc /\ ~StartsWith(path, <<"/", "/">>))
    THEN SchemePrefix(scheme) \o <<"/", "/">> \o netloc \o SlashPath(path)
    ELSE SchemePrefix(scheme) \o path

\* segments[1:-1] = filter(None, segments[1:-1])
FilterInner(segments) ==
    IF Len(segments) <= 2 THEN segments
    ELSE <<segments[1]>>
         \o SelectSeq(SubSeq(segments, 2, Len(segments) - 1), LAMBDA x : x # <<>>)
         \o <<segments[Len(segments)]>>

\* base_parts: bpath.split('/') without its last part unless that is ''
BaseParts(parts) ==
    IF parts[Len(parts)] # <<>> THEN SubSeq(parts, 1, Len(parts) - 1) ELSE parts

\* the loop of urljoin over the segments: '..' pops, '.' is dropped
RECURSIVE ResolveDots(_, _)
ResolveDots(segments, resolved) ==
    IF segments = <<>> THEN resolved
    ELSE IF Head(segments) = <<".", ".">>
    THEN ResolveDots(Tail(segments),
                     IF resolved = <<>> THEN resolved
                     ELSE SubSeq(resolved, 1, Len(resolved) - 1))
    ELSE IF Head(segments) = <<".">> THEN ResolveDots(Tail(segments), resolved)
    ELSE ResolveDots(Tail(segments), Append(resolved, Head(segments)))

\* '/'.join(resolved_path) or '/'
JoinedOrSlash(joined) == IF joined = <<>> THEN <<"/">> ELSE joined

\* the resolved path of the segments
ResolvedPath(segments) ==
    JoinedOrSlash(Join(IF segments[Len(segments)] \in {<<".">>, <<".", ".">>}
                       THEN Append(ResolveDots(segments, <<>>), <<>>)
                       ELSE ResolveDots(segments, <<>>), "/"))

\* urljoin once base and url are split
JoinSplit(url, b, u) ==
    IF b.err \/ u.err THEN [err |-> TRUE, url |-> <<>>]
    ELSE IF u.scheme # b.scheme \/ u.scheme \notin uses_relative
    THEN [err |-> FALSE, url |-> url]
    ELSE IF u.scheme \in uses_netloc /\ u.netloc # <<>>
    THEN [err |-> FALSE, url |-> urlunsplit(u.scheme, u.netloc, u.path)]
    ELSE IF u.path = <<>>
    THEN [err |-> FALSE, url |-> urlunsplit(u.scheme, b.netloc, b.path)]
    ELSE [err |-> FALSE,
          url |-> urlunsplit(u.scheme, b.netloc,
                      ResolvedPath(IF StartsWith(u.path, <<"/">>)
                                   THEN Split(u.path, "/")
                                   ELSE FilterInner(BaseParts(Split(b.path, "/"))
                                                    \o Split(u.path, "/"))))]

JoinBase(url, b) == JoinSplit(url, b, urlsplit(url, b.scheme))

\* urljoin(base, url) for non-empty base and url: [err, url]
urljoin(base, url) == JoinBase(url, urlsplit(base, <<>>))

\* urlparse(url).netloc: [err, netloc]
NetlocOf(p) == [err |-> p.err, netloc |-> p.netloc]
urlparse_netloc(url) == NetlocOf(urlsplit(url, <<>>))

(***************************************************************************)
(* State.  One set of variables serves the specifications: the batch       *)
(* (Spec), extract_links on its own (SpecLinks), the URL normalizer on its *)
(* own (SpecNorm) and the handling of one fetched page (SpecPage); each    *)
(* holds the others' variables at their initial values.                    *)
(***************************************************************************)
VARIABLES
    urls,          \* crawl_multiple_urls: the argument
    idx,           \* crawl_multiple_urls: position of the for loop in urls
    results,       \* crawl_multiple_urls: the list being built
    pc,            \* where the batch is: idle, loop, fetch, sleep, done, raised, app_raised
    url,           \* crawl_url: the local url of the request in flight
    requests,      \* the GET requests issued so far (session.get calls), in order
    responses,     \* what each of them met: the outcome of each session.get, in order
    sleeps,        \* number of time.sleep(1) calls made so far
    calls,         \* per fetch, the extraction methods crawl_url went on to call
    app_mode,      \* app.py: the mode the front end passed, "" before any call
    app_results,   \* app.py: st.session_state.results
    anchors,       \* extract_links alone: the hrefs of soup.find_all('a', href=True)
    base_url,      \* extract_links alone: base_url
    links,         \* extract_links alone: the dict returned
    lraised,       \* extract_links alone: the except branch ran
    lpc,           \* extract_links alone: call, returned
    n_in,          \* normalizer alone: the trimmed, non-empty input
    n_out,         \* normalizer alone: the url after the scheme check
    n_pc,          \* normalizer alone: how many times the check ran
    page,          \* one page: the parse of the body of the response
    main_content,  \* one page: the root extract_body_content chose, 0 the document
    page_result,   \* one page: the dict crawl_url returns
    page_pc        \* one page: fetched, returned

batch_vars ==
    <<urls, idx, results, pc, url, requests, responses, sleeps, calls, app_mode, app_results>>
link_vars == <<anchors, base_url, links, lraised, lpc>>
norm_vars == <<n_in, n_out, n_pc>>
page_vars == <<page, main_content, page_result, page_pc>>
vars == <<batch_vars, link_vars, norm_vars, page_vars>>

(***************************************************************************)
(* extract_links                                                           *)
(***************************************************************************)
P_javascript == <<"j", "a", "v", "a", "s", "c", "r", "i", "p", "t", ":">>
P_mailto == <<"m", "a", "i", "l", "t", "o", ":">>
P_tel == <<"t", "e", "l", ":">>
P_hash == <<"#">>
P_data == <<"d", "a", "t", "a", ":">>

EmptyLinks == [internal |-> <<>>, external |-> <<>>, all |-> <<>>]

\* a slip that forgets two of the prefixes
SkipHrefShort(href) ==
    href = <<>> \/ \E p \in {P_javascript, P_mailto, P_hash} : StartsWith(href, p)

\* if not href or href.startswith(('javascript:', 'mailto:', 'tel:', '#', 'data:'))
SkipHref(href) ==
    href = <<>>
    \/ \E p \in {P_javascript, P_mailto, P_tel, P_hash, P_data} : StartsWith(href, p)

\* a slip that takes the network location of the href, not of the resolved URL
IsInternalOfHref(base, href, absolute_url) ==
    urlparse_netloc(href).netloc = urlparse_netloc(base).netloc

\* link_domain == base_domain
IsInternal(base, href, absolute_url) ==
    urlparse_netloc(absolute_url).netloc = urlparse_netloc(base).netloc

\* links['internal' or 'external'].append(absolute_url); links['all'].append(absolute_url)
Place(acc, absolute_url, internal) ==
    [internal |-> IF internal THEN Append(acc.internal, absolute_url) ELSE acc.internal,
     external |-> IF internal THEN acc.external ELSE Append(acc.external, absolute_url),
     all |-> Append(acc.all, absolute_url),
     raised |-> FALSE]

\* the for loop over the anchors, from the accumulated lists acc; it stops at
\* the first anchor at which urljoin or urlparse raises
RECURSIVE WalkAnchors(_, _, _), WalkHref(_, _, _, _), WalkJoined(_, _, _, _, _)
WalkAnchors(hrefs, base, acc) ==
    IF hrefs = <<>> THEN acc ELSE WalkHref(strip(Head(hrefs)), Tail(hrefs), base, acc)
WalkHref(href, rest, base, acc) ==
    IF SkipHref(href) THEN WalkAnchors(rest, base, acc)
    ELSE WalkJoined(href, urljoin(base, href), rest, base, acc)
WalkJoined(href, j, rest, base, acc) ==
    IF j.err \/ urlparse_netloc(base).err \/ urlparse_netloc(j.url).err
    THEN [acc EXCEPT !.raised = TRUE]
    ELSE WalkAnchors(rest, base, Place(acc, j.url, IsInternal(base, href, j.url)))

\* a slip that leaves the duplicates in all
DedupNotAll(w) ==
    [internal |-> dict_fromkeys(w.internal),
     external |-> dict_fromkeys(w.external),
     all |-> w.all]

\* the three list(dict.fromkeys(...)) lines
Dedup(w) ==
    [internal |-> dict_fromkeys(w.internal),
     external |-> dict_fromkeys(w.external),
     all |-> dict_fromkeys(w.all)]

\* the return after the loop: with the duplicates removed unless the loop raised
Returned(w) ==
    IF w.raised
    THEN [links |-> [internal |-> w.internal, external |-> w.external, all |-> w.all],
          raised |-> TRUE]
    ELSE [links |-> Dedup(w), raised |-> FALSE]

\* extract_links(soup, base_url), hrefs being the href of each anchor of soup that
\* has one, in document order: [links, raised].  The lists are appended to in
\* place, so when the loop raises the dict returned holds what was appended before
\* the failing anchor, and the lines that remove duplicates have not run.
extract_links(hrefs, base) ==
    Returned(WalkAnchors(hrefs, base,
                 [internal |-> <<>>, external |-> <<>>, all |-> <<>>, raised |-> FALSE]))

(***************************************************************************)
(* Inputs of the two specifications of pure functions                      *)
(***************************************************************************)
B_post == <<"h", "t", "t", "p", "s", ":", "/", "/", "e", "x", "a", "m", "p", "l", "e", ".", "c", "o", "m", "/", "b", "l", "o", "g", "/", "p", "o", "s", "t">>
B_root == <<"h", "t", "t", "p", "s", ":", "/", "/", "e", "x", "a", "m", "p", "l", "e", ".", "c", "o", "m">>
B_other == <<"h", "t", "t", "p", "s", ":", "/", "/", "o", "t", "h", "e", "r", ".", "c", "o", "m">>
H_about == <<"/", "a", "b", "o", "u", "t">>
H_other == <<" ", "h", "t", "t", "p", "s", ":", "/", "/", "o", "t", "h", "e", "r", ".", "c", "o", "m", "/", "p", "a", "g", "e">>
H_bad == <<"/", "/", "[">>
H_hash == <<"#">>
H_js == <<"j", "a", "v", "a", "s", "c", "r", "i", "p", "t", ":", "v", "o", "i", "d", "(", "0", ")">>
H_mail == <<"m", "a", "i", "l", "t", "o", ":", "a", "@", "b", ".", "c", "o", "m">>
H_tel == <<" ", "t", "e", "l", ":", "1">>
H_data == <<"d", "a", "t", "a", ":", "x">>
H_blank == <<" ">>
U_about == <<"h", "t", "t", "p", "s", ":", "/", "/", "e", "x", "a", "m", "p", "l", "e", ".", "c", "o", "m", "/", "a", "b", "o", "u", "t">>
U_other == <<"h", "t", "t", "p", "s", ":", "/", "/", "o", "t", "h", "e", "r", ".", "c", "o", "m", "/", "p", "a", "g", "e">>

Hrefs == {H_about, H_other, H_bad, H_hash, H_js, H_mail, H_tel, H_data, H_blank}
Bases == {B_post, B_root, B_other}

SeqsUpTo(S, n) == UNION {[1..k -> S] : k \in 0..n}

\* what a user may type before the host: a scheme, a near miss of one, or nothing
NormPrefixes ==
    {<<>>, HTTP, HTTPS, HTTPS \o HTTPS, HTTP \o HTTPS,
     <<"h", "t", "t", "p", ":", "/">>, <<"h", "t", "t", "p", "s", ":">>,
     <<"H", "T", "T", "P", ":", "/", "/">>, <<"f", "t", "p", ":", "/", "/">>,
     <<"/", "/">>, <<"h", "t", "t", "p", "s">>}
NormInputs ==
    {x \in {p \o t : p \in NormPrefixes, t \in SeqsUpTo({"a", ".", "/"}, MaxTail)} :
        x # <<>> /\ strip(x) = x}

(***************************************************************************)
(* Initial values                                                          *)
(***************************************************************************)
BatchIdle ==
    /\ urls = <<>> /\ idx = 1 /\ results = <<>> /\ pc = "idle" /\ url = <<>>
    /\ requests = <<>> /\ responses = <<>> /\ sleeps = 0 /\ calls = <<>>
    /\ app_mode = "" /\ app_results = <<>>

LinksIdle ==
    /\ anchors = <<>> /\ base_url = <<>> /\ links = EmptyLinks
    /\ lraised = FALSE /\ lpc = "idle"

NormIdle == n_in = <<>> /\ n_out = <<>> /\ n_pc = 0

PageIdle == page = <<>> /\ main_content = 0 /\ page_result = <<>> /\ page_pc = "idle"

(***************************************************************************)
(* SpecLinks: extract_links applied to any anchors and base URL            *)
(***************************************************************************)
InitLinks ==
    /\ BatchIdle /\ NormIdle /\ PageIdle
    /\ anchors \in SeqsUpTo(Hrefs, MaxAnchors)
    /\ base_url \in Bases
    /\ links = EmptyLinks /\ lraised = FALSE /\ lpc = "call"

ReturnLinks(r) == links' = r.links /\ lraised' = r.raised

ExtractLinks ==
    /\ lpc = "call"
    /\ ReturnLinks(extract_links(anchors, base_url))
    /\ lpc' = "returned"
    /\ UNCHANGED <<anchors, base_url, batch_vars, norm_vars, page_vars>>

NextLinks == ExtractLinks

SpecLinks == InitLinks /\ [][NextLinks]_vars

(***************************************************************************)
(* SpecNorm: the scheme check of crawl_url applied once, then again        *)
(***************************************************************************)
InitNorm ==
    /\ BatchIdle /\ LinksIdle /\ PageIdle
    /\ n_in \in NormInputs /\ n_out = n_in /\ n_pc = 0

NormalizeUrl ==
    /\ n_pc < 2
    /\ n_out' = Normalize(n_out)
    /\ n_pc' = n_pc + 1
    /\ UNCHANGED <<n_in, batch_vars, link_vars, page_vars>>

NextNorm == NormalizeUrl

SpecNorm == InitNorm /\ [][NextNorm]_vars

(***************************************************************************)
(* Documents.  A parsed document is the sequence of its nodes in document  *)
(* order; a node is an element or a text node and names its parent by      *)
(* index, 0 being the document itself.                                     *)
(***************************************************************************)
T_main == <<"m", "a", "i", "n">>
T_article == <<"a", "r", "t", "i", "c", "l", "e">>
T_div == <<"d", "i", "v">>
T_body == <<"b", "o", "d", "y">>
T_nav == <<"n", "a", "v">>
T_script == <<"s", "c", "r", "i", "p", "t">>
T_style == <<"s", "t", "y", "l", "e">>
T_header == <<"h", "e", "a", "d", "e", "r">>
T_footer == <<"f", "o", "o", "t", "e", "r">>
T_aside == <<"a", "s", "i", "d", "e">>
T_meta == <<"m", "e", "t", "a">>
T_link == <<"l", "i", "n", "k">>
T_noscript == <<"n", "o", "s", "c", "r", "i", "p", "t">>
T_a == <<"a">>
T_p == <<"p">>
N_content == <<"c", "o", "n", "t", "e", "n", "t">>
N_main_content == <<"m", "a", "i", "n", "-", "c", "o", "n", "t", "e", "n", "t">>
N_main == <<"m", "a", "i", "n">>
N_post_content == <<"p", "o", "s", "t", "-", "c", "o", "n", "t", "e", "n", "t">>
N_entry_content == <<"e", "n", "t", "r", "y", "-", "c", "o", "n", "t", "e", "n", "t">>
N_article_content == <<"a", "r", "t", "i", "c", "l", "e", "-", "c", "o", "n", "t", "e", "n", "t">>

El(tag, parent) ==
    [kind |-> "el", tag |-> tag, parent |-> parent, class |-> <<>>, id |-> <<>>,
     hasHref |-> FALSE, href |-> <<>>, text |-> <<>>]
ElClass(tag, parent, class) == [El(tag, parent) EXCEPT !.class = <<class>>]
ElId(tag, parent, id) == [El(tag, parent) EXCEPT !.id = id]
Anchor(parent, href) == [El(T_a, parent) EXCEPT !.hasHref = TRUE, !.href = href]
Text(parent, text) ==
    [kind |-> "text", tag |-> <<>>, parent |-> parent, class |-> <<>>, id |-> <<>>,
     hasHref |-> FALSE, href |-> <<>>, text |-> text]

\* node i is node j or lies below it
RECURSIVE IsUnder(_, _, _)
IsUnder(doc, i, j) ==
    IF i = j THEN TRUE ELSE IF i = 0 THEN FALSE ELSE IsUnder(doc, doc[i].parent, j)

Children(doc, i) == SelectSeq([k \in 1..Len(doc) |-> k], LAMBDA k : doc[k].parent = i)

Quoted(name, value) == <<" ">> \o name \o <<"=", "\"">> \o value \o <<"\"">>

\* the markup of node i, and of the nodes idxs one after the other
RECURSIVE SerializeNode(_, _), SerializeSeq(_, _)
SerializeNode(doc, i) ==
    LET n == doc[i]
    IN  IF n.kind = "text" THEN n.text
        ELSE <<"<">> \o n.tag
             \o (IF n.class = <<>> THEN <<>> ELSE Quoted(<<"c", "l", "a", "s", "s">>, Join(n.class, " ")))
             \o (IF n.id = <<>> THEN <<>> ELSE Quoted(<<"i", "d">>, n.id))
             \o (IF n.hasHref THEN Quoted(<<"h", "r", "e", "f">>, n.href) ELSE <<>>)
             \o <<">">> \o SerializeSeq(doc, Children(doc, i))
             \o <<"<", "/">> \o n.tag \o <<">">>
SerializeSeq(doc, idxs) ==
    IF idxs = <<>> THEN <<>>
    ELSE SerializeNode(doc, Head(idxs)) \o SerializeSeq(doc, Tail(idxs))

\* response.text of a page whose parse is doc
Serialize(doc) == SerializeSeq(doc, Children(doc, 0))

(***************************************************************************)
(* extract_body_content                                                    *)
(***************************************************************************)
\* a slip that leaves nav out of the list
RemovedTagsNoNav ==
    {T_script, T_style, T_header, T_footer, T_aside, T_meta, T_link, T_noscript}

\* for element in soup(['script', 'style', 'nav', ...]): element.decompose()
RemovedTags ==
    {T_script, T_style, T_nav, T_header, T_footer, T_aside, T_meta, T_link, T_noscript}

\* the nodes left after every element of a removed kind was decomposed
Decompose(doc) ==
    {i \in 1..Len(doc) :
        ~\E j \in 1..Len(doc) :
            doc[j].kind = "el" /\ doc[j].tag \in RemovedTags /\ IsUnder(doc, i, j)}

\* a slip that tries article before main
selectorsArticleFirst ==
    <<[by |-> "tag", name |-> T_article],
      [by |-> "tag", name |-> T_main],
      [by |-> "class", name |-> N_content],
      [by |-> "class", name |-> N_main_content],
      [by |-> "id", name |-> N_content],
      [by |-> "id", name |-> N_main],
      [by |-> "class", name |-> N_post_content],
      [by |-> "class", name |-> N_entry_content],
      [by |-> "class", name |-> N_article_content]>>

\* the selectors, in the order of the list
selectors ==
    <<[by |-> "tag", name |-> T_main],
      [by |-> "tag", name |-> T_article],
      [by |-> "class", name |-> N_content],
      [by |-> "class", name |-> N_main_content],
      [by |-> "id", name |-> N_content],
      [by |-> "id", name |-> N_main],
      [by |-> "class", name |-> N_post_content],
      [by |-> "class", name |-> N_entry_content],
      [by |-> "class", name |-> N_article_content]>>

Matches(n, sel) ==
    /\ n.kind = "el"
    /\ CASE sel.by = "tag" -> n.tag = sel.name
         [] sel.by = "class" -> sel.name \in Range(n.class)
         [] sel.by = "id" -> n.id = sel.name

Min(S) == CHOOSE x \in S : \A y \in S : x <= y

MinOrZero(m) == IF m = {} THEN 0 ELSE Min(m)

\* soup.select_one(selector): the first match in document order, 0 for None
select_one(doc, live, sel) == MinOrZero({i \in live : Matches(doc[i], sel)})

\* the first selector of the list that matches, 0 when none does
FirstHit(hits) == MinOrZero(hits)

\* soup.find('body') or soup
BodyOrSoup(doc, live) ==
    MinOrZero({i \in live : doc[i].kind = "el" /\ doc[i].tag = T_body})

\* the root chosen given the index k of the first matching selector
RootOf(doc, live, k) ==
    IF k # 0 THEN select_one(doc, live, selectors[k]) ELSE BodyOrSoup(doc, live)

\* the for loop over the selectors, then soup.find('body') or soup: the root
\* node, 0 for the whole document
ContentRoot(doc, live) ==
    RootOf(doc, live,
           FirstHit({k \in 1..Len(selectors) : select_one(doc, live, selectors[k]) # 0}))

StripEach(ss) == [k \in 1..Len(ss) |-> strip(ss[k])]

NonEmpty(ss) == SelectSeq(ss, LAMBDA c : c # <<>>)

\* main_content.get_text(separator=' ', strip=True)
get_text(doc, live, root) ==
    Join(NonEmpty(StripEach(
             [k \in 1..Len(doc) |->
                 IF k \in live /\ doc[k].kind = "text" /\ IsUnder(doc, k, root)
                 THEN doc[k].text ELSE <<>>])), " ")

\* str.split("  ")
RECURSIVE SplitTwoSpaces(_), SplitTwoAt(_, _)
SplitTwoSpaces(s) ==
    SplitTwoAt(s, MinOrZero({i \in 1..(Len(s) - 1) : s[i] = " " /\ s[i + 1] = " "}))
SplitTwoAt(s, i) ==
    IF i = 0 THEN <<s>>
    ELSE <<SubSeq(s, 1, i - 1)>> \o SplitTwoSpaces(SubSeq(s, i + 2, Len(s)))

RECURSIVE Phrases(_)
Phrases(lines) ==
    IF lines = <<>> THEN <<>> ELSE SplitTwoSpaces(Head(lines)) \o Phrases(Tail(lines))

\* the three lines that clean up whitespace
CleanWhitespace(text) ==
    Join(NonEmpty(StripEach(Phrases(StripEach(Split(text, "\n"))))), " ")

\* the text and the soup returned when nothing raised
Extracted(doc, live) ==
    [content |-> CleanWhitespace(get_text(doc, live, ContentRoot(doc, live))),
     has_soup |-> TRUE, live |-> live]

\* a slip whose except branch hands back the soup it had built
extract_body_content_with_soup(doc, parse_raises) ==
    IF parse_raises
    THEN [content |-> Serialize(doc), has_soup |-> TRUE, live |-> Decompose(doc)]
    ELSE Extracted(doc, Decompose(doc))

\* extract_body_content(html_content), html_content being the markup of doc:
\* [content, has_soup, live], live being the nodes of the soup returned.  When
\* the parser or the extraction raises, the raw markup and None.
extract_body_content(doc, parse_raises) ==
    IF parse_raises
    THEN [content |-> Serialize(doc), has_soup |-> FALSE, live |-> {}]
    ELSE Extracted(doc, Decompose(doc))

HrefsOf(doc, as) == [k \in 1..Len(as) |-> doc[as[k]].href]

\* a slip that looks for the anchors in the page as it was fetched
AnchorHrefsOfPage(doc, live) ==
    HrefsOf(doc, SelectSeq([k \in 1..Len(doc) |-> k],
                           LAMBDA k : /\ doc[k].kind = "el"
                                      /\ doc[k].tag = T_a /\ doc[k].hasHref))

\* the hrefs of soup.find_all('a', href=True), in document order
AnchorHrefs(doc, live) ==
    HrefsOf(doc, SelectSeq([k \in 1..Len(doc) |-> k],
                           LAMBDA k : /\ k \in live /\ doc[k].kind = "el"
                                      /\ doc[k].tag = T_a /\ doc[k].hasHref))

(***************************************************************************)
(* crawl_url                                                               *)
(***************************************************************************)
SuccessFields ==
    {"url", "status_code", "content", "content_type", "encoding", "content_length",
     "links", "internal_links_count", "external_links_count", "total_links_count",
     "success"}
FailureFields == {"url", "error", "success"}

\* what session.get can raise that is a requests.exceptions.RequestException
RequestExceptions == {"ConnectionError", "Timeout"}

\* a slip that takes the client errors alone for errors
RaisesForClientError(resp) == 400 <= resp.status_code /\ resp.status_code < 500

\* response.raise_for_status() raises HTTPError
RaisesForStatus(resp) == 400 <= resp.status_code /\ resp.status_code < 600

\* response.headers.get(name, default)
HeaderGet(headers, name, default) ==
    IF name \in DOMAIN headers THEN headers[name] ELSE default

\* a slip that measures the response body instead of the extracted content
ContentLengthOfBody(content, doc) == Len(Serialize(doc))

\* len(body_content)
ContentLength(content, doc) == Len(content)

\* the dict of a success
ResultDict(u, resp, content, l) ==
    [url |-> u,
     status_code |-> resp.status_code,
     content |-> content,
     content_type |-> HeaderGet(resp.headers, "content-type", ""),
     encoding |-> resp.encoding,
     content_length |-> ContentLength(content, resp.doc),
     links |-> l,
     internal_links_count |-> Len(l.internal),
     external_links_count |-> Len(l.external),
     total_links_count |-> Len(l.all),
     success |-> TRUE]

\* links = {...empty...}; if soup: links = self.extract_links(soup, url)
LinksOf(u, doc, e) ==
    IF e.has_soup THEN extract_links(AnchorHrefs(doc, e.live), u).links ELSE EmptyLinks

Built(u, resp, e) == ResultDict(u, resp, e.content, LinksOf(u, resp.doc, e))

\* the dict returned after a fetch that did not raise
SuccessResult(u, resp) == Built(u, resp, extract_body_content(resp.doc, resp.parse_raises))

\* the extraction methods the try block calls after raise_for_status() returned
Extractions(e) ==
    IF e.has_soup THEN <<"extract_body_content", "extract_links">>
    ELSE <<"extract_body_content">>

\* a slip that gives a failure an empty content too
FailureResultWithContent(u, error, resp) ==
    [url |-> u, error |-> error, success |-> FALSE, content |-> <<>>]

\* the dict the two except branches return
FailureResult(u, error, resp) == [url |-> u, error |-> error, success |-> FALSE]

\* a slip that leaves out the second handler, except Exception
CatchesRequestExceptionOnly(kind) == kind # "Exception"

\* whether one of the two except branches of crawl_url catches what was raised
Catches(kind) == TRUE

\* crawl_url once the scheme is there
Crawled(u, resp) ==
    IF resp.kind \in RequestExceptions
    THEN [raised |-> ~Catches(resp.kind), result |-> FailureResult(u, resp.message, resp),
          called |-> <<>>]
    ELSE IF resp.kind = "Exception"
    THEN [raised |-> ~Catches(resp.kind),
          result |-> FailureResult(u, "Unexpected error: " \o resp.message, resp),
          called |-> <<>>]
    ELSE IF RaisesForStatus(resp)
    THEN [raised |-> ~Catches("HTTPError"), result |-> FailureResult(u, resp.message, resp),
          called |-> <<>>]
    ELSE [raised |-> FALSE, result |-> SuccessResult(u, resp),
          called |-> Extractions(extract_body_content(resp.doc, resp.parse_raises))]

\* crawl_url(url) when session.get meets resp: [raised, result, called]
crawl_url(u0, resp) == Crawled(Normalize(u0), resp)

(***************************************************************************)
(* SpecPage: crawl_url on one fetched page, the page being any small tree  *)
(* of elements that each hold one text of their own                        *)
(***************************************************************************)
ElementKinds ==
    {El(T_main, 0), El(T_article, 0), ElClass(T_div, 0, N_content),
     ElClass(T_div, 0, N_main_content), ElId(T_div, 0, N_content), ElId(T_div, 0, N_main),
     ElClass(T_div, 0, N_post_content), ElClass(T_div, 0, N_entry_content),
     ElClass(T_div, 0, N_article_content), El(T_body, 0), El(T_div, 0),
     El(T_nav, 0), El(T_script, 0), Anchor(0, H_about), Anchor(0, H_other),
     Anchor(0, H_hash), Anchor(0, H_bad)}

\* the text of the k-th element of a page
Marks == <<"p", "q", "r", "s">>

\* element k is element j or lies below it, ps naming each element's parent
RECURSIVE Below(_, _, _)
Below(ps, k, j) == IF k = j THEN TRUE ELSE IF k = 0 THEN FALSE ELSE Below(ps, ps[k], j)

\* the parents a parser can produce, the elements being numbered in document
\* order: an element opens inside the one before it or after some of the
\* elements open at that point were closed
ParentChoices(n) ==
    {ps \in [1..n -> 0..n] :
        \A k \in 1..n : IF k = 1 THEN ps[k] = 0 ELSE Below(ps, k - 1, ps[k])}

NodeAt(ks, ps, i) ==
    IF i % 2 = 1
    THEN [ks[(i + 1) \div 2] EXCEPT
             !.parent = IF ps[(i + 1) \div 2] = 0 THEN 0 ELSE 2 * ps[(i + 1) \div 2] - 1]
    ELSE Text(i - 1, <<Marks[i \div 2]>>)

\* the document of elements ks nested as ps says, each followed by its text
PageOf(ks, ps) == [i \in 1..(2 * Len(ks)) |-> NodeAt(ks, ps, i)]

\* <body><nav><a href=" https://other.com/page">o</a></nav><main>m</main>
\* <a href="/about">a</a></body>
D_sidebar ==
    <<El(T_body, 0), El(T_nav, 1), Anchor(2, H_other), Text(3, <<"o">>),
      El(T_main, 1), Text(5, <<"m">>), Anchor(1, H_about), Text(7, <<"a">>)>>

\* the pages of n elements
Pages(n) == {PageOf(ks, ps) : ks \in [1..n -> ElementKinds], ps \in ParentChoices(n)}

\* a 200 response whose body parses to doc
PageResponse(doc) ==
    [kind |-> "response", status_code |-> 200, doc |-> doc, parse_raises |-> FALSE,
     headers |-> ("content-type" :> "text/html"), encoding |-> "utf-8", message |-> ""]

InitPage ==
    /\ BatchIdle /\ LinksIdle /\ NormIdle
    /\ page \in UNION {Pages(n) : n \in 0..MaxElements} \cup {D_sidebar}
    /\ main_content = 0 /\ page_result = <<>> /\ page_pc = "fetched"

\* crawl_url from the return of session.get on
CrawlPage ==
    /\ page_pc = "fetched"
    /\ main_content' = ContentRoot(page, Decompose(page))
    /\ page_result' = crawl_url(B_root, PageResponse(page)).result
    /\ page_pc' = "returned"
    /\ UNCHANGED <<page, batch_vars, link_vars, norm_vars>>

NextPage == CrawlPage

SpecPage == InitPage /\ [][NextPage]_vars

(***************************************************************************)
(* What the batch is run on: input lists, and what a GET can meet          *)
(***************************************************************************)
I_blank == <<" ">>
I_bare == <<" ", "e", "x", "a", "m", "p", "l", "e", ".", "c", "o", "m">>
I_http == <<"h", "t", "t", "p", ":", "/", "/", "o", "t", "h", "e", "r", ".", "c", "o", "m", "/", "x">>
UrlInputs == {I_blank, I_bare, I_http}
U_bare == <<"h", "t", "t", "p", "s", ":", "/", "/", "e", "x", "a", "m", "p", "l", "e", ".", "c", "o", "m">>
U_http == <<"h", "t", "t", "p", ":", "/", "/", "o", "t", "h", "e", "r", ".", "c", "o", "m", "/", "x">>

\* <body><nav><a href="/about">nav</a></nav><main> hi  you\n<a href="/about">x</a>
\* <a href=" https://other.com/page"></a></main><a href="/about"></a></body>
D_article ==
    <<El(T_body, 0), El(T_nav, 1), Anchor(2, H_about), Text(3, <<"n", "a", "v">>),
      El(T_main, 1), Text(5, <<" ", "h", "i", " ", " ", "y", "o", "u", "\n">>),
      Anchor(5, H_about), Text(7, <<"x">>), Anchor(5, H_other), Anchor(1, H_about)>>

\* <body><a href="/about">a</a><a href="/about"></a><a href="//["></a>
\* <a href=" https://other.com/page"></a></body>
D_links ==
    <<El(T_body, 0), Anchor(1, H_about), Text(2, <<"a">>), Anchor(1, H_about),
      Anchor(1, H_bad), Anchor(1, H_other)>>

\* a body that is no markup at all: a  b
D_plain == <<Text(0, <<"a", " ", " ", "b">>)>>

Responses ==
    {[kind |-> "response", status_code |-> 200, doc |-> D_article, parse_raises |-> FALSE,
      headers |-> ("content-type" :> "text/html"), encoding |-> "utf-8", message |-> ""],
     [kind |-> "response", status_code |-> 200, doc |-> D_links, parse_raises |-> FALSE,
      headers |-> <<>>, encoding |-> "None", message |-> ""],
     [kind |-> "response", status_code |-> 200, doc |-> D_article, parse_raises |-> TRUE,
      headers |-> ("content-type" :> "text/html"), encoding |-> "utf-8", message |-> ""],
     [kind |-> "response", status_code |-> 404, doc |-> D_plain, parse_raises |-> FALSE,
      headers |-> <<>>, encoding |-> "None", message |-> "404 Client Error: Not Found"],
     [kind |-> "response", status_code |-> 500, doc |-> D_article, parse_raises |-> FALSE,
      headers |-> ("content-type" :> "text/html"), encoding |-> "utf-8",
      message |-> "500 Server Error: Internal Server Error"],
     [kind |-> "Timeout", message |-> "Read timed out. (read timeout=10)"],
     [kind |-> "Exception", message |-> "label empty or too long"]}

Modes == {"body_only", "full_page"}

(***************************************************************************)
(* Spec: the batch, crawl_multiple_urls, and the front end's call of it    *)
(***************************************************************************)
Init ==
    /\ urls \in SeqsUpTo(UrlInputs, MaxUrls)
    /\ idx = 1 /\ results = <<>> /\ pc = "idle" /\ url = <<>>
    /\ requests = <<>> /\ responses = <<>> /\ sleeps = 0 /\ calls = <<>>
    /\ app_mode = "" /\ app_results = <<>>
    /\ LinksIdle /\ NormIdle /\ PageIdle

\* crawl_multiple_urls(urls) is called: results = []
Call ==
    /\ pc = "idle"
    /\ pc' = "loop" /\ idx' = 1 /\ results' = <<>>
    /\ UNCHANGED <<urls, url, requests, responses, sleeps, calls, app_mode, app_results,
                   link_vars, norm_vars, page_vars>>

\* what the front end can hold in urls when the button is enabled: the one
\* non-empty line of the text input, or the trimmed non-blank lines of the text area
AppUrls(us) ==
    \/ Len(us) = 1 /\ us[1] # <<>>
    \/ us # <<>> /\ \A k \in 1..Len(us) : us[k] # <<>> /\ strip(us[k]) = us[k]

\* whether crawl_multiple_urls(self, urls) can be called with nargs arguments
\* after self; otherwise the call raises TypeError
Binds(nargs) == nargs = 1

\* app.py, the button: st.session_state.results = crawler.crawl_multiple_urls(urls, mode).
\* The method takes urls alone, so the call raises TypeError before any URL is
\* looked at and st.session_state.results is not assigned.
StartCrawling ==
    /\ pc = "idle"
    /\ AppUrls(urls)
    /\ \E mode \in Modes :
        /\ app_mode' = mode
        /\ pc' = IF Binds(2) THEN "loop" ELSE "app_raised"
    /\ UNCHANGED <<urls, idx, results, url, requests, responses, sleeps, calls, app_results,
                   link_vars, norm_vars, page_vars>>

\* a slip that drops the test of the trimmed url
TruthyAlways(u) == TRUE

\* if url:
Truthy(u) == u # <<>>

\* the for loop meets an entry that is blank after url.strip(): no crawl, no sleep
LoopSkip ==
    /\ pc = "loop" /\ idx <= Len(urls)
    /\ ~Truthy(strip(urls[idx]))
    /\ idx' = idx + 1
    /\ UNCHANGED <<urls, results, pc, url, requests, responses, sleeps, calls, app_mode,
                   app_results, link_vars, norm_vars, page_vars>>

\* the for loop meets a non-blank entry: crawl_url up to session.get(url, timeout=10)
LoopRequest ==
    /\ pc = "loop" /\ idx <= Len(urls)
    /\ Truthy(strip(urls[idx]))
    /\ url' = Normalize(strip(urls[idx]))
    /\ requests' = Append(requests, url')
    /\ pc' = "fetch"
    /\ UNCHANGED <<urls, idx, results, responses, sleeps, calls, app_mode, app_results,
                   link_vars, norm_vars, page_vars>>

\* results.append(result), unless crawl_url raised
Appended(c) ==
    IF c.raised
    THEN pc' = "raised" /\ results' = results /\ calls' = Append(calls, c.called)
    ELSE pc' = "sleep" /\ results' = Append(results, c.result)
         /\ calls' = Append(calls, c.called)

\* session.get returns or raises; the rest of crawl_url; results.append(result)
Respond ==
    /\ pc = "fetch"
    /\ \E resp \in Responses :
        /\ responses' = Append(responses, resp)
        /\ Appended(crawl_url(strip(urls[idx]), resp))
    /\ UNCHANGED <<urls, idx, url, requests, sleeps, app_mode, app_results,
                   link_vars, norm_vars, page_vars>>

\* a slip that tries an entry again while its crawl fails
NextEntryUnlessFailed(i, result) == IF result.success THEN i + 1 ELSE i

\* for url in urls: the entry after entry i, whatever its result was
NextEntry(i, result) == i + 1

\* a slip that pauses after a success only
SleptAfterSuccess(n, result) == IF result.success THEN n + 1 ELSE n

\* the number of time.sleep(1) calls made once the pause after a result is over
Slept(n, result) == n + 1

\* time.sleep(1), then the next entry
Sleep ==
    /\ pc = "sleep"
    /\ sleeps' = Slept(sleeps, results[Len(results)])
    /\ idx' = NextEntry(idx, results[Len(results)])
    /\ pc' = "loop"
    /\ UNCHANGED <<urls, results, url, requests, responses, calls, app_mode, app_results,
                   link_vars, norm_vars, page_vars>>

\* return results; a front end whose call was bound stores them
Return ==
    /\ pc = "loop" /\ idx > Len(urls)
    /\ pc' = "done"
    /\ app_results' = IF app_mode # "" THEN results ELSE app_results
    /\ UNCHANGED <<urls, idx, results, url, requests, responses, sleeps, calls, app_mode,
                   link_vars, norm_vars, page_vars>>

Next == Call \/ StartCrawling \/ LoopSkip \/ LoopRequest \/ Respond \/ Sleep \/ Return

Spec == Init /\ [][Next]_vars

\* the steps the one thread of the batch takes by itself once it was called
Proceed == LoopSkip \/ LoopRequest \/ Sleep \/ Return

\* Spec for a batch that keeps running and whose every fetch returns or fails,
\* at the latest by its timeout of 10 seconds
SpecFair == Spec /\ WF_vars(Proceed) /\ WF_vars(Respond)

(***************************************************************************)
(* Properties                                                              *)
(***************************************************************************)
\* the entries of an input list that are non-empty after trimming, in order
NonBlank(us) == SelectSeq(us, LAMBDA u : strip(u) # <<>>)

\* the URL a trimmed entry is requested under
Requested(u) ==
    IF StartsWith(strip(u), HTTP) \/ StartsWith(strip(u), HTTPS)
    THEN strip(u) ELSE HTTPS \o strip(u)

\* a fetch that ends in an exception: nothing came back, or a 4xx/5xx status
Failed(resp) == resp.kind # "response" \/ resp.status_code >= 400

\* C1: crawl_multiple_urls returns exactly one result per entry that is
\* non-empty after trimming, in the order of those entries; while it runs, the
\* results so far are those of the first such entries.
C1_OneResultPerNonBlankInOrder ==
    /\ Len(results) <= Len(NonBlank(urls))
    /\ \A k \in 1..Len(results) : results[k].url = Requested(NonBlank(urls)[k])
    /\ pc = "done" => Len(results) = Len(NonBlank(urls))

\* a batch of three returned: a URL, a blank entry, the same URL again
C1_Witness ==
    /\ pc = "done" /\ Len(urls) = 3
    /\ strip(urls[2]) = <<>> /\ urls[1] = urls[3] /\ strip(urls[1]) # <<>>
    /\ Len(results) = 2 /\ results[1].url = results[2].url

\* C2: a fetch that fails gives a result with success false for that URL only:
\* the batch never raises, every non-blank URL is requested and gets its own
\* result at its position, which tells what that URL's own fetch met.
C2_FailureIsLocal ==
    /\ pc # "raised"
    /\ Len(responses) >= Len(results)
    /\ \A k \in 1..Len(results) :
        /\ results[k].success = ~Failed(responses[k])
        /\ results[k].url = Requested(NonBlank(urls)[k])
        /\ results[k].success => results[k].status_code = responses[k].status_code
        /\ ~results[k].success =>
              results[k].error \in {responses[k].message,
                                    "Unexpected error: " \o responses[k].message}
    /\ pc = "done" =>
        /\ Len(results) = Len(NonBlank(urls))
        /\ Len(requests) = Len(NonBlank(urls))

\* a batch of three returned whose second URL failed and whose others did not
C2_Witness ==
    /\ pc = "done" /\ Len(results) = 3
    /\ results[1].success /\ ~results[2].success /\ results[3].success
    /\ responses[2].kind = "Exception"

\* C3: every LinkSet returned by extract_links has no URL in both internal and
\* external, has every URL of internal and external in all, and has no URL
\* twice in any of the three.
C3_LinkSetInvariant ==
    lpc = "returned" =>
        /\ Range(links.internal) \cap Range(links.external) = {}
        /\ Range(links.internal) \cup Range(links.external) \subseteq Range(links.all)
        /\ NoDuplicates(links.internal)
        /\ NoDuplicates(links.external)
        /\ NoDuplicates(links.all)

\* C4: in every result with success true, content_length is the number of
\* characters of content and the three link counts are the lengths of
\* links.internal, links.external and links.all.
C4_CountsMatch ==
    \A k \in 1..Len(results) :
        results[k].success =>
            /\ results[k].content_length = Len(results[k].content)
            /\ results[k].internal_links_count = Len(results[k].links.internal)
            /\ results[k].external_links_count = Len(results[k].links.external)
            /\ results[k].total_links_count = Len(results[k].links.all)

\* successes of all three kinds: links extracted, extraction cut short by an
\* error (a URL is listed twice), extraction skipped (the content is the markup)
C4_Witness ==
    /\ pc = "done" /\ Len(results) = 3
    /\ \A k \in 1..3 : results[k].success
    /\ results[1].external_links_count = 1 /\ results[1].content_length > 0
    /\ ~NoDuplicates(results[2].links.all) /\ results[2].total_links_count = 2
    /\ responses[3].parse_raises /\ results[3].content = Serialize(responses[3].doc)
    /\ results[3].total_links_count = 0

\* C5: a result of crawl_url has one of two shapes: with success true it holds
\* status_code, content, content_type, encoding, content_length, links and the
\* three link counts; with success false it holds url and error and none of those.
C5_TwoShapes ==
    \A k \in 1..Len(results) :
        IF results[k].success
        THEN DOMAIN results[k] = SuccessFields
        ELSE DOMAIN results[k] = FailureFields

\* a batch returned with a success and with failures of both handlers
C5_Witness ==
    /\ pc = "done" /\ Len(results) = 3
    /\ results[1].success
    /\ ~results[2].success /\ responses[2].kind = "response"
    /\ ~results[3].success /\ responses[3].kind = "Exception"

\* whether the claim counts an href as skipped
SkippedHref(h) ==
    \/ strip(h) = <<>>
    \/ StartsWith(strip(h), P_javascript)
    \/ StartsWith(strip(h), P_mailto)
    \/ StartsWith(strip(h), P_tel)
    \/ StartsWith(strip(h), P_hash)
    \/ StartsWith(strip(h), P_data)

\* C6: an anchor whose href is empty after trimming or starts with javascript:,
\* mailto:, tel:, # or data: contributes nothing: what extract_links returns is
\* what it returns for the document without those anchors, and no URL returned
\* is such an href.
C6_SkippedContributeNothing ==
    lpc = "returned" =>
        /\ [links |-> links, raised |-> lraised]
              = extract_links(SelectSeq(anchors, LAMBDA h : ~SkippedHref(h)), base_url)
        /\ \A u \in Range(links.all) \cup Range(links.internal) \cup Range(links.external) :
              ~SkippedHref(u)
        /\ (\A k \in 1..Len(anchors) : SkippedHref(anchors[k])) => links = EmptyLinks

\* skipped anchors before, between and after anchors that were listed
C6_Witness ==
    /\ lpc = "returned" /\ ~lraised /\ Len(anchors) = 3
    /\ SkippedHref(anchors[1]) /\ ~SkippedHref(anchors[2]) /\ SkippedHref(anchors[3])
    /\ Len(links.all) = 1

NetlocIs(u) == urlparse_netloc(u).netloc

\* the URL an href resolves to
Resolved(h) == urljoin(base_url, strip(h)).url

\* whether the claim has the href of an anchor resolved: it is not skipped and
\* urljoin accepts it
Resolvable(h) == ~SkippedHref(h) /\ ~urljoin(base_url, strip(h)).err

\* C7 as stated: for every non-skipped href (that can be resolved at all) the
\* resolved URL is in internal if its network location is string-equal to that
\* of the base URL, and otherwise in external.
C7_EveryHrefPlaced ==
    lpc = "returned" =>
        \A k \in 1..Len(anchors) :
            Resolvable(anchors[k]) =>
                IF NetlocIs(Resolved(anchors[k])) = NetlocIs(base_url)
                THEN Resolved(anchors[k]) \in Range(links.internal)
                ELSE Resolved(anchors[k]) \in Range(links.external)

\* C7, amended: every URL listed is in internal if and only if its network
\* location is string-equal to that of the base URL, otherwise in external; and
\* when extract_links completes without error, every non-skipped href is
\* resolved against the base URL and its resolved URL is listed so.  "/about" on
\* https://example.com/blog/post is https://example.com/about and internal,
\* https://other.com/page from https://example.com is external.
C7_ClassifiedByNetloc ==
    lpc = "returned" =>
        /\ \A u \in Range(links.internal) : NetlocIs(u) = NetlocIs(base_url)
        /\ \A u \in Range(links.external) : NetlocIs(u) # NetlocIs(base_url)
        /\ ~lraised =>
            \A k \in 1..Len(anchors) :
                ~SkippedHref(anchors[k]) =>
                    IF NetlocIs(urljoin(base_url, strip(anchors[k])).url) = NetlocIs(base_url)
                    THEN /\ urljoin(base_url, strip(anchors[k])).url \in Range(links.internal)
                         /\ urljoin(base_url, strip(anchors[k])).url \notin Range(links.external)
                    ELSE /\ urljoin(base_url, strip(anchors[k])).url \in Range(links.external)
                         /\ urljoin(base_url, strip(anchors[k])).url \notin Range(links.internal)
        /\ (~lraised /\ base_url = B_post /\ H_about \in Range(anchors))
              => U_about \in Range(links.internal) /\ U_about \notin Range(links.external)
        /\ (~lraised /\ base_url = B_root /\ H_other \in Range(anchors))
              => U_other \in Range(links.external) /\ U_other \notin Range(links.internal)

\* the two examples in one document
C7_Witness ==
    /\ lpc = "returned" /\ ~lraised /\ base_url = B_post
    /\ links.internal = <<U_about>> /\ links.external = <<U_other>>
    /\ links.all = <<U_other, U_about>>

\* C8: if a step of extract_links raises while walking the anchors, the
\* LinkSet returned is empty: internal = [], external = [], all = [].
C8_ErrorGivesEmptyLinkSet == (lpc = "returned" /\ lraised) => links = EmptyLinks

\* C9: the batch operation accepts a list of URLs together with a mode, and in
\* full-page mode the content of each successful result is the response body
\* unmodified.
C9_ModeAcceptedAndFullPageRaw ==
    /\ pc # "app_raised"
    /\ app_mode = "full_page" =>
        \A k \in 1..Len(results) :
            results[k].success => results[k].content = Serialize(responses[k].doc)

InRemoved(doc, i) ==
    \E j \in 1..Len(doc) :
        /\ doc[j].kind = "el" /\ IsUnder(doc, i, j)
        /\ doc[j].tag \in {T_script, T_style, T_nav, T_header, T_footer, T_aside,
                           T_meta, T_link, T_noscript}

\* the text nodes of doc
Texts(doc) == {i \in 1..Len(doc) : doc[i].kind = "text"}

\* text node i of doc shows in the content of the result
Appears(doc, i) == \A c \in Range(doc[i].text) : c \in Range(page_result.content)

\* the main elements of doc that are not inside a removed element
Mains(doc) ==
    {j \in 1..Len(doc) : doc[j].kind = "el" /\ doc[j].tag = T_main /\ ~InRemoved(doc, j)}

\* C11 as stated: text inside an element of a removed kind never shows in the
\* content, and text inside a main element (and outside every removed
\* element) does.  Refuted by a page with two main elements: the second
\* one's text is left out.
C11_RemovedOutMainIn ==
    page_pc = "returned" =>
        \A i \in Texts(page) :
            /\ InRemoved(page, i) => ~Appears(page, i)
            /\ (~InRemoved(page, i) /\ \E j \in Mains(page) : IsUnder(page, i, j))
                   => Appears(page, i)

\* C11, amended: text inside an element of a removed kind never shows in the
\* content, and the text inside the first main element in document order
\* that lies outside every removed element does, the parts of it inside a
\* removed element excepted.
C11_RemovedOutFirstMainIn ==
    page_pc = "returned" =>
        \A i \in Texts(page) :
            /\ InRemoved(page, i) => ~Appears(page, i)
            /\ (~InRemoved(page, i) /\ Mains(page) # {}
                 /\ IsUnder(page, i, Min(Mains(page))))
                   => Appears(page, i)

\* a returned page with a text inside nav and a text inside main
C11_Witness ==
    /\ page_pc = "returned"
    /\ \E i \in Texts(page) : page[page[i].parent].tag = T_nav
    /\ \E i \in Texts(page) : page[page[i].parent].tag = T_main /\ Appears(page, i)

\* C12: a response with a 4xx or 5xx status gives a result with success false
\* whose error is the HTTP error's own message, without the "Unexpected error"
\* prefix, and neither content extraction nor link extraction is called for it.
C12_HttpErrorIsFailureWithoutExtraction ==
    /\ Len(calls) = Len(responses)
    /\ \A k \in 1..Len(results) :
        (responses[k].kind = "response" /\ responses[k].status_code \in 400..599) =>
            /\ results[k].success = FALSE
            /\ results[k].error = responses[k].message
            /\ results[k].error # "Unexpected error: " \o responses[k].message
            /\ calls[k] = <<>>

\* a batch that met a 404 and a 500 and went on
C12_Witness ==
    /\ pc = "done"
    /\ \E k \in 1..Len(results) : responses[k].kind = "response" /\ responses[k].status_code = 404
    /\ \E k \in 1..Len(results) : responses[k].kind = "response" /\ responses[k].status_code = 500

\* the places in the priority order main, article, .content, .main-content,
\* #content, #main, .post-content, .entry-content, .article-content that
\* element n answers to
Priorities(n) ==
    {k \in 1..9 :
        CASE k = 1 -> n.tag = T_main
          [] k = 2 -> n.tag = T_article
          [] k = 3 -> N_content \in Range(n.class)
          [] k = 4 -> N_main_content \in Range(n.class)
          [] k = 5 -> n.id = N_content
          [] k = 6 -> n.id = N_main
          [] k = 7 -> N_post_content \in Range(n.class)
          [] k = 8 -> N_entry_content \in Range(n.class)
          [] k = 9 -> N_article_content \in Range(n.class)}

\* the elements of doc left once the non-content elements were removed
Kept(doc) == {i \in 1..Len(doc) : doc[i].kind = "el" /\ ~InRemoved(doc, i)}

\* the elements left that answer to some place of the priority order
Candidates(doc) == {i \in Kept(doc) : Priorities(doc[i]) # {}}

\* the highest priority any element left answers to
Best(doc) == Min(UNION {Priorities(doc[i]) : i \in Candidates(doc)})

Bodies(doc) == {i \in Kept(doc) : doc[i].tag = T_body}

\* C13: the content root is the first element, in document order, of the
\* highest-priority selector that matches anywhere in the document left after
\* the non-content elements were removed, so an element of a lower-priority
\* selector is chosen only if no higher-priority selector matches; when no
\* selector matches the root is body, and without a body the whole document.
C13_RootByPriority ==
    page_pc = "returned" =>
        IF Candidates(page) # {}
        THEN /\ main_content \in Candidates(page)
             /\ Best(page) \in Priorities(page[main_content])
             /\ \A i \in Candidates(page) :
                    /\ \A k \in Priorities(page[i]) : k >= Best(page)
                    /\ (Best(page) \in Priorities(page[i])) => i >= main_content
        ELSE IF Bodies(page) # {} THEN main_content = Min(Bodies(page))
        ELSE main_content = 0

\* a returned page whose root comes after an element of a lower-priority
\* selector in document order
C13_Witness ==
    /\ page_pc = "returned"
    /\ main_content \in Candidates(page)
    /\ \E i \in Candidates(page) : i < main_content /\ Best(page) \notin Priorities(page[i])

\* the elements of s at the positions keep
Pick(s, keep) == [i \in 1..Len(keep) |-> s[keep[i]]]

\* the first occurrence of each element of s, in the order of s
FirstOccurrences(s) ==
    Pick(s, SelectSeq([k \in 1..Len(s) |-> k], LAMBDA k : \A j \in 1..(k - 1) : s[j] # s[k]))

\* the resolved URLs of the non-skipped anchors, in document order
ResolvedAnchors ==
    Pick([k \in 1..Len(anchors) |-> Resolved(anchors[k])],
         SelectSeq([k \in 1..Len(anchors) |-> k], LAMBDA k : ~SkippedHref(anchors[k])))

\* C14: when extract_links completes without error, each of internal,
\* external and all is the sequence of first occurrences, in document order,
\* of the resolved URLs of the non-skipped anchors that belong to it: a URL
\* that several anchors reach is listed once, at the place of its first anchor,
\* and distinct URLs keep their relative order.
C14_FirstOccurrencesInOrder ==
    (lpc = "returned" /\ ~lraised) =>
        /\ links.all = FirstOccurrences(ResolvedAnchors)
        /\ links.internal =
              FirstOccurrences(SelectSeq(ResolvedAnchors,
                                         LAMBDA u : NetlocIs(u) = NetlocIs(base_url)))
        /\ links.external =
              FirstOccurrences(SelectSeq(ResolvedAnchors,
                                         LAMBDA u : NetlocIs(u) # NetlocIs(base_url)))

\* a URL reached by the first and the last of three anchors, another between
C14_Witness ==
    /\ lpc = "returned" /\ ~lraised /\ Len(anchors) = 3
    /\ anchors[1] = anchors[3] /\ ~SkippedHref(anchors[1])
    /\ ~SkippedHref(anchors[2]) /\ Resolved(anchors[2]) # Resolved(anchors[1])
    /\ links.all = <<Resolved(anchors[1]), Resolved(anchors[2])>>

\* C15: over one run of the batch the GET requests issued are, in order, the
\* normalized trimmed non-blank entries of the input: one request each, none
\* repeated after a failure or a success, none for a blank entry.
C15_RequestsAreInputsInOrder ==
    /\ Len(requests) <= Len(NonBlank(urls))
    /\ \A k \in 1..Len(requests) : requests[k] = Requested(NonBlank(urls)[k])
    /\ pc = "done" => Len(requests) = Len(NonBlank(urls))

\* a finished batch over a blank entry, an entry whose fetch failed and an
\* entry whose fetch succeeded
C15_Witness ==
    /\ pc = "done" /\ urls = <<I_bare, I_blank, I_http>>
    /\ requests = <<U_bare, U_http>>
    /\ ~results[1].success /\ results[2].success

\* C16: the batch is strictly sequential.  At most one request is in flight,
\* and a request is issued only when the result of every earlier request has
\* been appended and the pause after each of them is over.
C16_StrictlySequential ==
    /\ [](Len(requests) - Len(responses) \in {0, 1})
    /\ [][requests' # requests =>
            /\ Len(responses) = Len(requests)
            /\ Len(results) = Len(requests)
            /\ sleeps = Len(requests)]_vars

\* the second request of a batch is in flight, the first having failed
C16_Witness ==
    /\ pc = "fetch" /\ Len(requests) = 2 /\ Len(results) = 1 /\ sleeps = 1
    /\ ~results[1].success

\* C17: if parsing or content extraction raises for a page that was fetched,
\* the result still has success true: its content is the raw body of the
\* response, extract_body_content having returned no parsed document,
\* extract_links is not called, links is the empty LinkSet and the three
\* counts are 0.
C17_ExtractionFailureFallsBackToRaw ==
    \A k \in 1..Len(results) :
        (responses[k].kind = "response" /\ responses[k].status_code < 400
         /\ responses[k].parse_raises) =>
            /\ results[k].success = TRUE
            /\ results[k].content = Serialize(responses[k].doc)
            /\ calls[k] = <<"extract_body_content">>
            /\ results[k].links = EmptyLinks
            /\ results[k].internal_links_count = 0
            /\ results[k].external_links_count = 0
            /\ results[k].total_links_count = 0

\* a result for a page with anchors whose extraction raised
C17_Witness ==
    /\ Len(results) >= 1
    /\ responses[1].kind = "response" /\ responses[1].parse_raises
    /\ AnchorHrefs(responses[1].doc, Decompose(responses[1].doc)) # <<>>
    /\ results[1].success /\ results[1].content # <<>>

\* C18: provided each fetch returns or fails, a batch that was called on any
\* finite list completes and returns, with one outcome per non-blank entry of
\* the list: no run of failures stops it early or keeps it looping.
C18_BatchCompletes ==
    (pc = "loop") ~> (pc = "done" /\ Len(results) = Len(NonBlank(urls)))

\* a batch that returned after every one of its fetches failed
C18_Witness ==
    /\ pc = "done" /\ Len(results) = MaxUrls
    /\ \A k \in 1..Len(results) : ~results[k].success

\* C19: in every result with success true, total_links_count is
\* internal_links_count plus external_links_count, links.all holding the URLs
\* of links.internal and links.external and no other: after a normal link
\* extraction, after one that raised part-way, and when it was skipped.
C19_TotalIsInternalPlusExternal ==
    \A k \in 1..Len(results) :
        results[k].success =>
            /\ results[k].total_links_count
                  = results[k].internal_links_count + results[k].external_links_count
            /\ Len(results[k].links.all)
                  = Len(results[k].links.internal) + Len(results[k].links.external)
            /\ Range(results[k].links.all)
                  = Range(results[k].links.internal) \cup Range(results[k].links.external)

\* three results: link extraction ran to its end over anchors that repeat a
\* URL, raised part-way, and was skipped
C19_Witness ==
    /\ Len(results) = 3
    /\ responses[1].kind = "response" /\ responses[1].status_code = 200
    /\ responses[1].doc = D_article /\ ~responses[1].parse_raises
    /\ results[1].total_links_count = 2
    /\ responses[2].kind = "response" /\ responses[2].doc = D_links
    /\ results[2].success /\ results[2].total_links_count = 2
    /\ calls[3] = <<"extract_body_content">> /\ results[3].total_links_count = 0

\* the anchors of doc that carry an href
AnchorsOf(doc) == {i \in 1..Len(doc) : doc[i].kind = "el" /\ doc[i].tag = T_a /\ doc[i].hasHref}

\* the URL the href of anchor i of the page resolves to
PageUrl(i) == urljoin(B_root, strip(page[i].href)).url

\* extract_links has nothing to raise on in the document left
CleanedResolves ==
    \A j \in AnchorsOf(page) :
        (~InRemoved(page, j) /\ ~SkippedHref(page[j].href))
            => ~urljoin(B_root, strip(page[j].href)).err

\* C20: the links of a result are those of the document left after the
\* non-content elements were removed.  An anchor inside a removed element
\* never contributes: the links are what extract_links gives for the page
\* without such anchors, and a URL that only such anchors reach is not listed.
\* An anchor anywhere else contributes, also when it lies outside the content
\* root: it is among the anchors extract_links works on, and its URL is
\* listed unless its href is one that is skipped or link extraction raised.
C20_LinksOfCleanedDocument ==
    page_pc = "returned" =>
        /\ page_result.links
              = extract_links(HrefsOf(page,
                                  SelectSeq([k \in 1..Len(page) |-> k],
                                            LAMBDA k : k \in AnchorsOf(page)
                                                       /\ ~InRemoved(page, k))),
                              B_root).links
        /\ \A i \in AnchorsOf(page) :
              IF InRemoved(page, i)
              THEN (\A j \in AnchorsOf(page) :
                        PageUrl(j) = PageUrl(i) => InRemoved(page, j))
                      => PageUrl(i) \notin Range(page_result.links.all)
              ELSE (CleanedResolves /\ ~SkippedHref(page[i].href))
                      => PageUrl(i) \in Range(page_result.links.all)

\* a returned page with an anchor inside nav that is not listed and an anchor
\* outside the content root that is
C20_Witness ==
    /\ page_pc = "returned" /\ main_content # 0
    /\ \E i \in AnchorsOf(page) :
          InRemoved(page, i) /\ PageUrl(i) \notin Range(page_result.links.all)
    /\ \E i \in AnchorsOf(page) :
          /\ ~InRemoved(page, i) /\ ~IsUnder(page, i, main_content)
          /\ PageUrl(i) \in Range(page_result.links.all)

====
